---- MODULE Spec2Model ----
(***************************************************************************)
(* InvertedIndex (src/src/iindex.rs) over SimpleTokenizer                  *)
(* (src/src/tokenizer.rs).                                                 *)
(*                                                                         *)
(* A text is a sequence of one-character strings.  A token is a text too   *)
(* (a maximal run of alphanumeric characters of the lowercased text).      *)
(* The index is the three fields of the struct: core (token -> set of      *)
(* document ids), docs (document id -> raw text) and next_doc_id.          *)
(***************************************************************************)
EXTENDS Integers, Sequences, FiniteSets, TLC

\* The number of insert_document calls a behaviour may make.
MaxDocs == 3

-----------------------------------------------------------------------------
(* Characters and their classes (char::is_alphanumeric, is_whitespace,     *)
(* str::to_lowercase restricted to the characters in use).  Every other    *)
(* character (",", "!", "?" below) is neither alphanumeric nor whitespace. *)

LowerLetters == {"a", "b", "d", "e", "f", "h", "l", "n", "o", "r", "t", "u", "w"}
UpperLetters == {"H", "W"}
Whitespace == {" ", "\t"}

IsAlphanumeric(c) == c \in LowerLetters \cup UpperLetters
IsWhitespace(c) == c \in Whitespace

LowerOf(c) ==
    CASE c = "H" -> "h"
      [] c = "W" -> "w"
      [] OTHER -> c

ToLowercase(text) == [i \in 1..Len(text) |-> LowerOf(text[i])]

\* tokenizer.rs:8  the closure of .map(): keep alphanumerics and whitespace,
\* turn every other character into a space.
MapChar(c) == IF IsAlphanumeric(c) \/ IsWhitespace(c) THEN c ELSE " "

MapChars(text) == [i \in 1..Len(text) |-> MapChar(text[i])]

\* str::split_whitespace: the maximal runs of non-whitespace characters, in
\* order; empty fragments are never produced.  cur is the run being read,
\* acc the runs already closed.
RECURSIVE SplitFrom(_, _, _, _)
SplitFrom(s, i, cur, acc) ==
    IF i > Len(s)
    THEN IF cur = <<>> THEN acc ELSE Append(acc, cur)
    ELSE IF IsWhitespace(s[i])
         THEN SplitFrom(s, i + 1, <<>>, IF cur = <<>> THEN acc ELSE Append(acc, cur))
         ELSE SplitFrom(s, i + 1, Append(cur, s[i]), acc)

SplitWhitespace(s) == SplitFrom(s, 1, <<>>, <<>>)

\* SimpleTokenizer::tokenize: the Vec<String> of tokens, in order, with
\* repetitions.
tokenize(text) == SplitWhitespace(MapChars(ToLowercase(text)))

Range(s) == {s[i] : i \in 1..Len(s)}

-----------------------------------------------------------------------------
(* The texts the callers pass: the documents and queries of the unit tests *)
(* of iindex.rs and of the scenarios, and the degenerate texts.            *)

W_hello == <<"h", "e", "l", "l", "o">>
W_world == <<"w", "o", "r", "l", "d">>
W_foo == <<"f", "o", "o">>
W_bar == <<"b", "a", "r">>
W_notfound == <<"n", "o", "t", "f", "o", "u", "n", "d">>
SP == <<" ">>

T_empty == <<>>
T_blank == <<" ", "\t">>
T_punct == <<"?", "!">>
T_hello_world == W_hello \o SP \o W_world
T_world_hello == W_world \o SP \o W_hello
T_Hello_World == <<"H">> \o Tail(W_hello) \o <<",", " ", "W">> \o Tail(W_world) \o <<"!">>
T_foo_bar == W_foo \o SP \o W_bar
T_hello_foo == W_hello \o SP \o W_foo
T_world_bar == W_world \o SP \o W_bar
T_hello_hello == W_hello \o <<",">> \o W_hello
T_hello_notfound == W_hello \o SP \o W_notfound
T_notfound_hello == W_notfound \o SP \o W_hello
T_hello_notfound_world == W_hello \o SP \o W_notfound \o SP \o W_world

Documents ==
    { T_empty, T_punct, T_hello_world, T_Hello_World, T_foo_bar, T_hello_foo,
      T_world_bar, T_hello_hello }

Queries ==
    { T_empty, T_blank, T_punct, W_hello, W_notfound, T_hello_world,
      T_world_hello, T_Hello_World, T_hello_foo, T_hello_hello,
      T_hello_notfound, T_notfound_hello, T_hello_notfound_world }

\* tokenize over the texts in use, as a table (evaluated once).
TokensOf == [text \in Documents \cup Queries |-> tokenize(text)]

\* The ids get_document is called with: every id that can be stored and one
\* beyond.
Ids == 0..MaxDocs

-----------------------------------------------------------------------------
VARIABLES
    core,         \* HashMap<String, HashSet<usize>>: a function on the known tokens
    docs,         \* HashMap<usize, String>: a function on the stored ids
    next_doc_id,  \* usize
    op,           \* the last call made: its name,
    arg,          \*   its argument
    ret,          \*   and its return value
    inserted      \* the texts passed to insert_document so far, in call order

vars == <<core, docs, next_doc_id, op, arg, ret, inserted>>

index == <<core, docs, next_doc_id>>

\* Option<T>
None == [some |-> FALSE]
Some(v) == [some |-> TRUE, val |-> v]

\* The empty function: HashMap::new().
EmptyMap == <<>>

\* The value of self as a record of its three fields.
Self == [core |-> core, docs |-> docs, next_doc_id |-> next_doc_id]

\* InvertedIndex::new  (Default: empty maps, counter 0)
new == [core |-> EmptyMap, docs |-> EmptyMap, next_doc_id |-> 0]

Init ==
    /\ core = new.core
    /\ docs = new.docs
    /\ next_doc_id = new.next_doc_id
    /\ op = "new"
    /\ arg = <<>>
    /\ ret = None
    /\ inserted = <<>>

-----------------------------------------------------------------------------
(* insert_document                                                         *)

\* A variant of AddPosting: self.core.insert(token, {id}), which replaces the
\* posting set instead of adding to it.
AddPosting_replace(c, token, id) ==
    [t \in (DOMAIN c) \cup {token} |-> IF t = token THEN {id} ELSE c[t]]

\* iindex.rs:24-25  self.core.entry(token).or_default().insert(id)
AddPosting(c, token, id) ==
    [t \in (DOMAIN c) \cup {token} |->
        IF t = token
        THEN (IF token \in DOMAIN c THEN c[token] ELSE {}) \cup {id}
        ELSE c[t]]

\* A variant of InsertLoop that stops one token early.
RECURSIVE InsertLoop_drop_last(_, _, _, _)
InsertLoop_drop_last(c, tokens, i, id) ==
    IF i >= Len(tokens)
    THEN c
    ELSE InsertLoop_drop_last(
            [t \in (DOMAIN c) \cup {tokens[i]} |->
                IF t = tokens[i]
                THEN (IF t \in DOMAIN c THEN c[t] ELSE {}) \cup {id}
                ELSE c[t]],
            tokens, i + 1, id)

\* iindex.rs:23-26  the for loop over the tokens, from the i-th on.
RECURSIVE InsertLoop(_, _, _, _)
InsertLoop(c, tokens, i, id) ==
    IF i > Len(tokens)
    THEN c
    ELSE InsertLoop(AddPosting(c, tokens[i], id), tokens, i + 1, id)

\* HashMap::insert(k, v)
MapInsert(m, k, v) == [x \in (DOMAIN m) \cup {k} |-> IF x = k THEN v ELSE m[x]]

\* Variants of insert_document: without line 27 (the counter is not
\* incremented); with line 27 moved before line 22 (the text is stored under
\* the incremented counter); with an early return for a text without tokens.
insert_document_no_increment(self, doc) ==
    [ core |-> InsertLoop(self.core, TokensOf[doc], 1, self.next_doc_id),
      docs |-> MapInsert(self.docs, self.next_doc_id, doc),
      next_doc_id |-> self.next_doc_id ]

insert_document_increment_first(self, doc) ==
    [ core |-> InsertLoop(self.core, TokensOf[doc], 1, self.next_doc_id + 1),
      docs |-> MapInsert(self.docs, self.next_doc_id + 1, doc),
      next_doc_id |-> self.next_doc_id + 1 ]

insert_document_skip_empty(self, doc) ==
    IF TokensOf[doc] = <<>>
    THEN self
    ELSE [ core |-> InsertLoop(self.core, TokensOf[doc], 1, self.next_doc_id),
           docs |-> MapInsert(self.docs, self.next_doc_id, doc),
           next_doc_id |-> self.next_doc_id + 1 ]

\* The index after self.insert_document(doc).
insert_document(self, doc) ==
    LET tokens == TokensOf[doc]
    IN  [ core |-> InsertLoop(self.core, tokens, 1, self.next_doc_id),
          docs |-> MapInsert(self.docs, self.next_doc_id, doc),
          next_doc_id |-> self.next_doc_id + 1 ]

CallInsert(doc) ==
    /\ next_doc_id < MaxDocs
    /\ LET after == insert_document(Self, doc)
       IN  /\ core' = after.core
           /\ docs' = after.docs
           /\ next_doc_id' = after.next_doc_id
    /\ op' = "insert_document"
    /\ arg' = doc
    /\ ret' = None
    /\ inserted' = Append(inserted, doc)

-----------------------------------------------------------------------------
(* get_document                                                            *)

\* HashMap::get: Some(&v) for a key of the map, None otherwise.
MapGet(m, k) == IF k \in DOMAIN m THEN Some(m[k]) ELSE None

\* self.get_document(id)
get_document(self, id) == MapGet(self.docs, id)

CallGetDocument(id) ==
    /\ op' = "get_document"
    /\ arg' = id
    /\ ret' = get_document(Self, id)
    /\ UNCHANGED <<core, docs, next_doc_id, inserted>>

-----------------------------------------------------------------------------
(* search_or                                                               *)

\* A variant of OrLoop: hits = doc_ids.clone() instead of hits.extend(doc_ids).
RECURSIVE OrLoop_replace(_, _, _, _)
OrLoop_replace(c, tokens, i, hits) ==
    IF i > Len(tokens)
    THEN hits
    ELSE IF tokens[i] \in DOMAIN c
         THEN OrLoop_replace(c, tokens, i + 1, c[tokens[i]])
         ELSE OrLoop_replace(c, tokens, i + 1, hits)

\* iindex.rs:42-46  the for loop from the i-th token on; hits is the
\* accumulating HashSet.
RECURSIVE OrLoop(_, _, _, _)
OrLoop(c, tokens, i, hits) ==
    IF i > Len(tokens)
    THEN hits
    ELSE LET found == MapGet(c, tokens[i])
         IN  IF found.some
             THEN OrLoop(c, tokens, i + 1, hits \cup found.val)
             ELSE OrLoop(c, tokens, i + 1, hits)

\* A variant of search_or that iterates over the tokens after the first.
search_or_skip_first(self, query) == OrLoop(self.core, TokensOf[query], 2, {})

\* self.search_or(query)
search_or(self, query) == OrLoop(self.core, TokensOf[query], 1, {})

CallSearchOr(query) ==
    /\ op' = "search_or"
    /\ arg' = query
    /\ ret' = search_or(Self, query)
    /\ UNCHANGED <<core, docs, next_doc_id, inserted>>

-----------------------------------------------------------------------------
(* search_and                                                              *)

\* Variants of AndLoop: the Some(current) arm takes the union; an unknown
\* token is skipped instead of returning; a query without tokens matches
\* every indexed document.
RECURSIVE AndLoop_union(_, _, _, _)
AndLoop_union(c, tokens, i, hits) ==
    IF i > Len(tokens)
    THEN IF hits.some THEN hits.val ELSE {}
    ELSE IF tokens[i] \in DOMAIN c
         THEN AndLoop_union(c, tokens, i + 1,
                            [some |-> TRUE,
                             val |-> IF hits.some THEN hits.val \cup c[tokens[i]]
                                                  ELSE c[tokens[i]]])
         ELSE {}

RECURSIVE AndLoop_skip_unknown(_, _, _, _)
AndLoop_skip_unknown(c, tokens, i, hits) ==
    IF i > Len(tokens)
    THEN IF hits.some THEN hits.val ELSE {}
    ELSE IF tokens[i] \in DOMAIN c
         THEN AndLoop_skip_unknown(c, tokens, i + 1,
                            [some |-> TRUE,
                             val |-> IF hits.some THEN hits.val \cap c[tokens[i]]
                                                  ELSE c[tokens[i]]])
         ELSE AndLoop_skip_unknown(c, tokens, i + 1, hits)

RECURSIVE AndLoop_match_all(_, _, _, _)
AndLoop_match_all(c, tokens, i, hits) ==
    IF i > Len(tokens)
    THEN IF hits.some THEN hits.val ELSE UNION {c[t] : t \in DOMAIN c}
    ELSE IF tokens[i] \in DOMAIN c
         THEN AndLoop_match_all(c, tokens, i + 1,
                            [some |-> TRUE,
                             val |-> IF hits.some THEN hits.val \cap c[tokens[i]]
                                                  ELSE c[tokens[i]]])
         ELSE {}

\* iindex.rs:58-69  the for loop from the i-th token on; hits is the
\* Option<HashSet<usize>>.  The value is what the function returns: the
\* empty set at the first token the index does not know (line 67), else
\* hits.unwrap_or_default() after the last token (line 71).
RECURSIVE AndLoop(_, _, _, _)
AndLoop(c, tokens, i, hits) ==
    IF i > Len(tokens)
    THEN IF hits.some THEN hits.val ELSE {}
    ELSE LET found == MapGet(c, tokens[i])
         IN  IF found.some
             THEN AndLoop(c, tokens, i + 1,
                          Some(IF hits.some THEN hits.val \cap found.val
                                            ELSE found.val))
             ELSE {}

\* self.search_and(query)
search_and(self, query) == AndLoop(self.core, TokensOf[query], 1, None)

CallSearchAnd(query) ==
    /\ op' = "search_and"
    /\ arg' = query
    /\ ret' = search_and(Self, query)
    /\ UNCHANGED <<core, docs, next_doc_id, inserted>>

-----------------------------------------------------------------------------
Next ==
    \/ \E doc \in Documents : CallInsert(doc)
    \/ \E id \in Ids : CallGetDocument(id)
    \/ \E query \in Queries : CallSearchOr(query)
    \/ \E query \in Queries : CallSearchAnd(query)

Spec == Init /\ [][Next]_vars

-----------------------------------------------------------------------------
(* Vocabulary of the properties.                                           *)

\* The set of tokens of a text.
TokenSet(text) == Range(TokensOf[text])

\* The posting set of a token: empty for a token the index does not know.
Posting(t) == IF t \in DOMAIN core THEN core[t] ELSE {}

\* Every token of every text in use, and every token the index knows.
Tokens == (UNION {TokenSet(text) : text \in Documents \cup Queries}) \cup DOMAIN core

\* The number of insert_document calls made so far.
NumInserted == Len(inserted)

\* The index in the next state.
SelfNext == [core |-> core', docs |-> docs', next_doc_id |-> next_doc_id']

-----------------------------------------------------------------------------
\* C1: after n inserts on a fresh index the document store holds exactly the
\* ids 0..n-1, the counter is n, and get_document(i) returns the raw text of
\* the i-th insert (counting from 0), as does every get_document call made.
C1_IdsInInsertionOrder ==
    /\ next_doc_id = NumInserted
    /\ DOMAIN docs = 0..(NumInserted - 1)
    /\ \A i \in 1..NumInserted : get_document(Self, i - 1) = Some(inserted[i])
    /\ (op = "get_document" /\ arg < NumInserted) => ret = Some(inserted[arg + 1])

\* The test test_multiple_documents: three inserts, then get_document(1).
C1_Witness ==
    /\ inserted = <<T_hello_world, T_foo_bar, T_hello_foo>>
    /\ op = "get_document"
    /\ arg = 1
    /\ ret = Some(T_foo_bar)

\* C2: a document id d is in the posting set of token t exactly when t is
\* one of the tokens of the text stored under d (posting sets are sets: a
\* repeated token gives one entry).
C2_PostingIffTokenOccurs ==
    \A t \in Tokens :
        \A d \in Ids \cup Posting(t) :
            (d \in Posting(t)) <=> (d \in DOMAIN docs /\ t \in TokenSet(docs[d]))

\* "hello,hello" under id 0 and "hello world" under id 1: hello has the two
\* ids once each, world has id 1 only.
C2_Witness ==
    /\ inserted = <<T_hello_hello, T_hello_world>>
    /\ TokensOf[docs[0]] = <<W_hello, W_hello>>
    /\ Posting(W_hello) = {0, 1}
    /\ Posting(W_world) = {1}

\* C3: a search_or call returns the union of the posting sets of the query's
\* tokens, which is the set of stored ids whose text has at least one of the
\* query's tokens; it is empty when the index knows none of the tokens.
C3_SearchOrIsUnion ==
    op = "search_or" =>
        LET toks == TokenSet(arg)
        IN  /\ ret = UNION {Posting(t) : t \in toks}
            /\ ret = {d \in DOMAIN docs : TokenSet(docs[d]) \cap toks # {}}
            /\ (toks \cap DOMAIN core = {}) => ret = {}

\* The scenario of the spec: search_or("hello world") over three documents.
C3_Witness ==
    /\ inserted = <<T_hello_world, T_hello_foo, T_world_bar>>
    /\ op = "search_or"
    /\ arg = T_hello_world
    /\ ret = {0, 1, 2}

\* C4: a search_and call whose query has at least one token returns the
\* intersection of the posting sets of the query's tokens, which is the set
\* of stored ids whose text has every token of the query; every query with
\* the same set of tokens (other order, repetitions) gives the same result.
C4_SearchAndIsIntersection ==
    (op = "search_and" /\ TokensOf[arg] # <<>>) =>
        LET toks == TokenSet(arg)
        IN  /\ ret = {d \in Ids \cup DOMAIN docs : \A t \in toks : d \in Posting(t)}
            /\ ret = {d \in DOMAIN docs : toks \subseteq TokenSet(docs[d])}
            /\ \A q \in Queries : TokenSet(q) = toks => search_and(Self, q) = ret

\* search_and("world hello") over the three documents of the scenario: the
\* first token is in documents 0 and 2, the second in 0 and 1.
C4_Witness ==
    /\ inserted = <<T_hello_world, T_hello_foo, T_world_bar>>
    /\ op = "search_and"
    /\ arg = T_world_hello
    /\ ret = {0}

\* C5: a search_and call whose query has a token that occurs in no stored
\* document returns the empty set.
C5_AbsentTokenGivesEmpty ==
    (op = "search_and"
        /\ \E t \in TokenSet(arg) : \A d \in DOMAIN docs : t \notin TokenSet(docs[d]))
    => ret = {}

\* The absent token in the middle of the query, between two tokens that a
\* stored document has both.
C5_Witness ==
    /\ op = "search_and"
    /\ arg = T_hello_notfound_world
    /\ \E d \in DOMAIN docs : {W_hello, W_world} \subseteq TokenSet(docs[d])
    /\ ret = {}

\* C6: on every index state and for every query, search_and(Q) is a subset
\* of search_or(Q); so is the result of a call with respect to the other
\* search on the same state.
C6_AndSubsetOfOr ==
    /\ \A q \in Queries : search_and(Self, q) \subseteq search_or(Self, q)
    /\ op = "search_and" => ret \subseteq search_or(Self, arg)
    /\ op = "search_or" => search_and(Self, arg) \subseteq ret

\* A proper inclusion: search_and("hello world") = {0} while search_or gives
\* all three documents.
C6_Witness ==
    /\ op = "search_and"
    /\ arg = T_hello_world
    /\ ret = {0}
    /\ search_or(Self, arg) = {0, 1, 2}

\* C7: the document store holds exactly the ids 0..n-1 after n inserts, and
\* get_document returns None (a value of the Option, not an error) for every
\* id >= n, id 0 on the fresh index included.
C7_AbsentBeyondInsertions ==
    /\ DOMAIN docs = 0..(NumInserted - 1)
    /\ \A id \in Ids \cup {MaxDocs + 1} :
            id >= NumInserted => get_document(Self, id) = None
    /\ op = "get_document" =>
            /\ ret = None \/ (ret.some /\ ret.val \in Documents)
            /\ arg >= NumInserted => ret = None

\* get_document(2) after two inserts.
C7_Witness ==
    /\ NumInserted = 2
    /\ op = "get_document"
    /\ arg = 2
    /\ ret = None

\* C8: search_and on a query with zero tokens returns the empty set in every
\* index state.
C8_ZeroTokenAndIsEmpty ==
    /\ \A q \in Queries : TokensOf[q] = <<>> => search_and(Self, q) = {}
    /\ (op = "search_and" /\ TokensOf[arg] = <<>>) => ret = {}

\* A punctuation-only query on an index that holds indexed documents.
C8_Witness ==
    /\ op = "search_and"
    /\ arg = T_punct
    /\ DOMAIN core # {}
    /\ NumInserted >= 2
    /\ ret = {}

\* C9: every id in a posting set is a key of the document store and below
\* next_doc_id; a stored document is in some posting set exactly when its
\* text has a token; a text without tokens is stored under its own id, which
\* it consumes, and is in no posting set.
C9_PostingsAndStoreAgree ==
    /\ next_doc_id = NumInserted
    /\ \A t \in DOMAIN core : \A d \in core[t] : d \in DOMAIN docs /\ d < next_doc_id
    /\ \A d \in DOMAIN docs :
            (TokensOf[docs[d]] # <<>>) <=> (\E t \in DOMAIN core : d \in core[t])
    /\ \A i \in 1..NumInserted :
            TokensOf[inserted[i]] = <<>> =>
                /\ (i - 1) \in DOMAIN docs
                /\ docs[i - 1] = inserted[i]
                /\ \A t \in DOMAIN core : (i - 1) \notin core[t]

\* The empty text takes id 0; the next document gets id 1.
C9_Witness ==
    /\ inserted = <<T_empty, T_hello_world>>
    /\ docs[0] = T_empty
    /\ next_doc_id = 2
    /\ Posting(W_hello) = {1}

\* C10: every step keeps the stored texts and the members of every posting
\* set, so the results of search_or and search_and for a fixed query only
\* grow; get_document, search_or and search_and leave the index unchanged;
\* an insert of a text equal to a stored one stores it under a new id, and
\* both ids are in the posting set of each of its tokens and in the results
\* of both searches for that text.
C10_Step ==
    /\ op' \in {"get_document", "search_or", "search_and"} => UNCHANGED index
    /\ index' # index =>
        /\ \A d \in DOMAIN docs : d \in DOMAIN docs' /\ docs'[d] = docs[d]
        /\ \A t \in DOMAIN core : t \in DOMAIN core' /\ core[t] \subseteq core'[t]
        /\ \A q \in Queries :
                /\ search_or(Self, q) \subseteq search_or(SelfNext, q)
                /\ search_and(Self, q) \subseteq search_and(SelfNext, q)
        /\ \A j \in DOMAIN docs :
                (op' = "insert_document" /\ docs[j] = arg' /\ TokensOf[arg'] # <<>>) =>
                    /\ next_doc_id \notin DOMAIN docs
                    /\ next_doc_id \in DOMAIN docs'
                    /\ docs'[next_doc_id] = arg'
                    /\ \A t \in TokenSet(arg') : {j, next_doc_id} \subseteq Posting(t)'
                    /\ {j, next_doc_id} \subseteq search_or(SelfNext, arg')
                    /\ {j, next_doc_id} \subseteq search_and(SelfNext, arg')

C10_IndexOnlyGrows == [][C10_Step]_vars

\* The same text inserted twice, then searched for: both ids are returned.
C10_Witness ==
    /\ inserted = <<T_hello_world, T_hello_world>>
    /\ op = "search_and"
    /\ arg = T_hello_world
    /\ ret = {0, 1}

====
